---- MODULE Spec2Model ----
(***************************************************************************)
(* Model of DynaMemSim's two memory-management engines (src/main.py):      *)
(*   DynamicPartition - contiguous allocation with first/best/worst fit    *)
(*                      and free-block coalescing;                         *)
(*   DynamicPaging    - demand paging with a page table and FIFO           *)
(*                      replacement.                                       *)
(* The two engines share no state.  PartSpec runs the partition engine,    *)
(* PageSpec the paging engine.  The variables `call' and `pre' are history *)
(* variables: the arguments and return value of the last call, and the     *)
(* engine state just before it.  `load_order' and `written' are history    *)
(* variables of the paging engine: the resident pages in the order they    *)
(* were loaded, and the resident pages stored to since they were loaded.   *)
(***************************************************************************)
EXTENDS Integers, Sequences, FiniteSets

\* ---- bounds (scaled-down configuration and input ranges) ----
MemorySize == 8
MaxRequest == 3
PagingMemorySize == 5
PageSize == 2
MaxJobSize == 6

\* Python's None for a process id, a page number or a frame number.
None == -1

\* process identifiers are opaque: three of them are enough to fragment the
\* memory and still allocate
Pids == {1, 2, 3}
Requests == 1..MaxRequest
Algorithms == {"first_fit", "best_fit", "worst_fit"}

\* job identifiers are opaque
JobIds == {1}
Operations == {"save", "load", "+"}

VARIABLES memory_blocks, processes,
          frames, current_job, page_table, allocated_frames, frame_queue,
          call, pre, load_order, written

part_vars == <<memory_blocks, processes>>
page_vars == <<frames, current_job, page_table, allocated_frames, frame_queue>>
hist_vars == <<load_order, written>>
vars == <<part_vars, page_vars, call, pre, hist_vars>>

\* ------------------------------------------------------------------------
\* DynamicPartition
\* ------------------------------------------------------------------------

MemoryBlock(start_addr, size, allocated, process_id) ==
    [start_addr |-> start_addr, size |-> size,
     allocated |-> allocated, process_id |-> process_id]

Process(pid, memory_size) == [pid |-> pid, memory_size |-> memory_size]

\* list.pop(i) and list.insert(i, x), with 1-based positions
Pop(s, i) == SubSeq(s, 1, i - 1) \o SubSeq(s, i + 1, Len(s))
Insert(s, i, x) == SubSeq(s, 1, i - 1) \o <<x>> \o SubSeq(s, i, Len(s))

\* free_blocks, as the positions in memory_blocks of the blocks not allocated
\* (memory_blocks.index(block) of a free block is that position).
RECURSIVE free_blocks_from(_, _)
free_blocks_from(blocks, i) ==
    IF i > Len(blocks) THEN <<>>
    ELSE (IF blocks[i].allocated THEN <<>> ELSE <<i>>)
         \o free_blocks_from(blocks, i + 1)

free_blocks(blocks) == free_blocks_from(blocks, 1)

\* suitable_index when no block was chosen (suitable_block is None)
NoBlock == 0

\* a diff larger than any size - memory_size can be: float('inf')
Infinity == MemorySize + 1

RECURSIVE first_fit_loop(_, _, _)
first_fit_loop(blocks, free, size) ==
    IF free = <<>> THEN NoBlock
    ELSE IF blocks[Head(free)].size >= size THEN Head(free)
    ELSE first_fit_loop(blocks, Tail(free), size)

\* first_fit without the break: the last sufficient block wins
RECURSIVE first_fit_nobreak_loop(_, _, _, _)
first_fit_nobreak_loop(blocks, free, size, suitable_index) ==
    IF free = <<>> THEN suitable_index
    ELSE IF blocks[Head(free)].size >= size
    THEN first_fit_nobreak_loop(blocks, Tail(free), size, Head(free))
    ELSE first_fit_nobreak_loop(blocks, Tail(free), size, suitable_index)

first_fit_nobreak(blocks, size) ==
    first_fit_nobreak_loop(blocks, free_blocks(blocks), size, NoBlock)

\* first_fit with > in place of >=: an exact fit is passed over
RECURSIVE first_fit_strict_loop(_, _, _)
first_fit_strict_loop(blocks, free, size) ==
    IF free = <<>> THEN NoBlock
    ELSE IF blocks[Head(free)].size > size THEN Head(free)
    ELSE first_fit_strict_loop(blocks, Tail(free), size)

first_fit_strict(blocks, size) ==
    first_fit_strict_loop(blocks, free_blocks(blocks), size)

first_fit(blocks, size) == first_fit_loop(blocks, free_blocks(blocks), size)

RECURSIVE best_fit_loop(_, _, _, _, _)
best_fit_loop(blocks, free, size, min_size_diff, suitable_index) ==
    IF free = <<>> THEN suitable_index
    ELSE LET block == blocks[Head(free)] IN
         IF block.size >= size /\ block.size - size < min_size_diff
         THEN best_fit_loop(blocks, Tail(free), size, block.size - size, Head(free))
         ELSE best_fit_loop(blocks, Tail(free), size, min_size_diff, suitable_index)

\* best_fit with <= in place of <: a tie goes to the last block
RECURSIVE best_fit_le_loop(_, _, _, _, _)
best_fit_le_loop(blocks, free, size, min_size_diff, suitable_index) ==
    IF free = <<>> THEN suitable_index
    ELSE LET block == blocks[Head(free)] IN
         IF block.size >= size /\ block.size - size <= min_size_diff
         THEN best_fit_le_loop(blocks, Tail(free), size, block.size - size, Head(free))
         ELSE best_fit_le_loop(blocks, Tail(free), size, min_size_diff, suitable_index)

best_fit_le(blocks, size) ==
    best_fit_le_loop(blocks, free_blocks(blocks), size, Infinity, NoBlock)

best_fit(blocks, size) ==
    best_fit_loop(blocks, free_blocks(blocks), size, Infinity, NoBlock)

RECURSIVE worst_fit_loop(_, _, _, _, _)
worst_fit_loop(blocks, free, size, max_size_diff, suitable_index) ==
    IF free = <<>> THEN suitable_index
    ELSE LET block == blocks[Head(free)] IN
         IF block.size >= size /\ block.size - size > max_size_diff
         THEN worst_fit_loop(blocks, Tail(free), size, block.size - size, Head(free))
         ELSE worst_fit_loop(blocks, Tail(free), size, max_size_diff, suitable_index)

\* worst_fit starting from max_size_diff = 0: an exact fit is never chosen
worst_fit_zero(blocks, size) ==
    worst_fit_loop(blocks, free_blocks(blocks), size, 0, NoBlock)

worst_fit(blocks, size) ==
    worst_fit_loop(blocks, free_blocks(blocks), size, -1, NoBlock)

suitable(blocks, size, algorithm) ==
    CASE algorithm = "first_fit" -> first_fit(blocks, size)
      [] algorithm = "best_fit" -> best_fit(blocks, size)
      [] algorithm = "worst_fit" -> worst_fit(blocks, size)
      [] OTHER -> NoBlock

\* split_block with the remainder left at the chosen block's start
split_block_overlap(blocks, suitable_index, pid, size) ==
    LET start_addr == blocks[suitable_index].start_addr
        original_size == blocks[suitable_index].size
        allocated_block == MemoryBlock(start_addr, size, TRUE, pid)
        popped == Pop(blocks, suitable_index)
        rest == IF original_size > size
                THEN Insert(popped, suitable_index,
                            MemoryBlock(start_addr, original_size - size,
                                        FALSE, None))
                ELSE popped
    IN Insert(rest, suitable_index, allocated_block)

\* split_block with the remainder inserted in front of the allocated block
split_block_swapped(blocks, suitable_index, pid, size) ==
    LET start_addr == blocks[suitable_index].start_addr
        original_size == blocks[suitable_index].size
        allocated_block == MemoryBlock(start_addr, size, TRUE, pid)
        popped == Pop(blocks, suitable_index)
        rest == Insert(popped, suitable_index, allocated_block)
    IN IF original_size > size
       THEN Insert(rest, suitable_index,
                   MemoryBlock(start_addr + size, original_size - size,
                               FALSE, None))
       ELSE rest

\* split_block handing the whole chosen block to the process
split_block_whole(blocks, suitable_index, pid, size) ==
    [blocks EXCEPT ![suitable_index].allocated = TRUE,
                   ![suitable_index].process_id = pid]

\* the block list after the chosen block is split for the process
split_block(blocks, suitable_index, pid, size) ==
    LET start_addr == blocks[suitable_index].start_addr
        original_size == blocks[suitable_index].size
        allocated_block == MemoryBlock(start_addr, size, TRUE, pid)
        popped == Pop(blocks, suitable_index)
        rest == IF original_size > size
                THEN Insert(popped, suitable_index,
                            MemoryBlock(start_addr + size, original_size - size,
                                        FALSE, None))
                ELSE popped
    IN Insert(rest, suitable_index, allocated_block)

RECURSIVE merge_from(_, _)
merge_from(blocks, i) ==
    IF ~(i < Len(blocks)) THEN blocks
    ELSE IF ~blocks[i].allocated /\ ~blocks[i + 1].allocated
    THEN merge_from(
           Pop([blocks EXCEPT ![i].size = blocks[i].size + blocks[i + 1].size],
               i + 1), i)
    ELSE merge_from(blocks, i + 1)

\* the merge loop advancing i after a merge as well
RECURSIVE merge_advancing(_, _)
merge_advancing(blocks, i) ==
    IF ~(i < Len(blocks)) THEN blocks
    ELSE IF ~blocks[i].allocated /\ ~blocks[i + 1].allocated
    THEN merge_advancing(
           Pop([blocks EXCEPT ![i].size = blocks[i].size + blocks[i + 1].size],
               i + 1), i + 1)
    ELSE merge_advancing(blocks, i + 1)

_merge_adjacent_blocks_advancing(blocks) == merge_advancing(blocks, 1)

\* the merge loop leaving after its first merge
RECURSIVE merge_once(_, _)
merge_once(blocks, i) ==
    IF ~(i < Len(blocks)) THEN blocks
    ELSE IF ~blocks[i].allocated /\ ~blocks[i + 1].allocated
    THEN Pop([blocks EXCEPT ![i].size = blocks[i].size + blocks[i + 1].size],
             i + 1)
    ELSE merge_once(blocks, i + 1)

_merge_adjacent_blocks_once(blocks) == merge_once(blocks, 1)

_merge_adjacent_blocks(blocks) == merge_from(blocks, 1)

\* position of the first block allocated to pid, NoBlock if there is none
RECURSIVE find_block(_, _, _)
find_block(blocks, pid, i) ==
    IF i > Len(blocks) THEN NoBlock
    ELSE IF blocks[i].allocated /\ blocks[i].process_id = pid THEN i
    ELSE find_block(blocks, pid, i + 1)

free_block_at(blocks, block_index) ==
    [blocks EXCEPT ![block_index] =
        MemoryBlock(blocks[block_index].start_addr, blocks[block_index].size,
                    FALSE, None)]

Snapshot ==
    [memory_blocks |-> memory_blocks, processes |-> processes,
     frames |-> frames, current_job |-> current_job, page_table |-> page_table,
     allocated_frames |-> allocated_frames, frame_queue |-> frame_queue,
     load_order |-> load_order, written |-> written]

allocate(pid, size, algorithm) ==
    LET suitable_index == suitable(memory_blocks, size, algorithm)
        c == [op |-> "allocate", pid |-> pid, size |-> size,
              algorithm |-> algorithm, ok |-> FALSE]
    IN /\ pre' = Snapshot
       /\ IF pid \in DOMAIN processes
          THEN /\ call' = [c EXCEPT !.ok = FALSE]
               /\ UNCHANGED <<memory_blocks, processes>>
          ELSE IF suitable_index # NoBlock
          THEN /\ memory_blocks' = split_block(memory_blocks, suitable_index, pid, size)
               /\ processes' = [p \in DOMAIN processes \cup {pid} |->
                                  IF p = pid THEN Process(pid, size) ELSE processes[p]]
               /\ call' = [c EXCEPT !.ok = TRUE]
          ELSE /\ call' = [c EXCEPT !.ok = FALSE]
               /\ UNCHANGED <<memory_blocks, processes>>

deallocate(pid) ==
    LET block_index == find_block(memory_blocks, pid, 1)
        c == [op |-> "deallocate", pid |-> pid, ok |-> FALSE]
    IN /\ pre' = Snapshot
       /\ IF pid \notin DOMAIN processes
          THEN /\ call' = [c EXCEPT !.ok = FALSE]
               /\ UNCHANGED <<memory_blocks, processes>>
          ELSE IF block_index = NoBlock
          THEN /\ call' = [c EXCEPT !.ok = FALSE]
               /\ UNCHANGED <<memory_blocks, processes>>
          ELSE /\ memory_blocks' =
                    _merge_adjacent_blocks(free_block_at(memory_blocks, block_index))
               /\ processes' = [p \in DOMAIN processes \ {pid} |-> processes[p]]
               /\ call' = [c EXCEPT !.ok = TRUE]

Allocate ==
    /\ \E pid \in Pids, size \in Requests, algorithm \in Algorithms :
          allocate(pid, size, algorithm)
    /\ UNCHANGED <<page_vars, hist_vars>>

Deallocate ==
    /\ \E pid \in Pids : deallocate(pid)
    /\ UNCHANGED <<page_vars, hist_vars>>


\* ------------------------------------------------------------------------
\* DynamicPaging
\* ------------------------------------------------------------------------

total_frames == PagingMemorySize \div PageSize

\* Page, without disk_pos: a random display string no operation reads
Page(page_no, exists, frame_no, modified) ==
    [page_no |-> page_no, exists |-> exists, frame_no |-> frame_no,
     modified |-> modified]

\* current_job = None
NoJob == [id |-> None, size |-> None, pages_count |-> None,
          allocated_frames_count |-> None]

\* the ascending list of the frame numbers f >= i with fr[f] = None
RECURSIVE free_frames_from(_, _)
free_frames_from(fr, i) ==
    IF i >= total_frames THEN <<>>
    ELSE (IF fr[i] = None THEN <<i>> ELSE <<>>) \o free_frames_from(fr, i + 1)

\* empty_allocated_frames testing the slot's truth value: a frame holding
\* page 0 counts as empty
empty_allocated_frames_falsy(fr, allocated) ==
    SelectSeq(allocated, LAMBDA f : fr[f] = None \/ fr[f] = 0)

\* empty_allocated_frames with the test inverted
empty_allocated_frames_inverted(fr, allocated) ==
    SelectSeq(allocated, LAMBDA f : fr[f] # None)

\* empty_allocated_frames listing the empty frames from the last one of
\* `allocated' to the first
RECURSIVE reversed(_)
reversed(s) == IF s = <<>> THEN <<>> ELSE Append(reversed(Tail(s)), Head(s))

empty_allocated_frames_descending(fr, allocated) ==
    reversed(SelectSeq(allocated, LAMBDA f : fr[f] = None))

\* the frames of `allocated', in its order, that hold no page
empty_allocated_frames(fr, allocated) ==
    SelectSeq(allocated, LAMBDA f : fr[f] = None)

\* pages_count rounded down
pages_count_of_floor(job_size) == job_size \div PageSize

pages_count_of(job_size) == (job_size + PageSize - 1) \div PageSize

new_page_table(pages_count) ==
    [i \in 0..(pages_count - 1) |-> Page(i, FALSE, None, FALSE)]

create_job(job_id, job_size, allocated_frames_count) ==
    LET c == [op |-> "create_job", job_id |-> job_id, job_size |-> job_size,
              allocated_frames_count |-> allocated_frames_count, ok |-> FALSE,
              reason |-> "none"]
        pages_count == pages_count_of(job_size)
        free_frames == free_frames_from(frames, 0)
    IN /\ pre' = Snapshot
       /\ IF job_size > MaxJobSize
          THEN /\ call' = [c EXCEPT !.reason = "JobTooLarge"]
               /\ UNCHANGED page_vars
          ELSE IF allocated_frames_count > total_frames
          THEN /\ call' = [c EXCEPT !.reason = "InsufficientFrames"]
               /\ UNCHANGED page_vars
          ELSE /\ page_table' = new_page_table(pages_count)
               /\ IF Len(free_frames) < allocated_frames_count
                  THEN /\ allocated_frames' = <<>>
                       /\ call' = [c EXCEPT !.reason = "OutOfFrames"]
                       /\ UNCHANGED <<frames, current_job, frame_queue>>
                  ELSE /\ allocated_frames' =
                             SubSeq(free_frames, 1, allocated_frames_count)
                       /\ current_job' =
                             [id |-> job_id, size |-> job_size,
                              pages_count |-> pages_count,
                              allocated_frames_count |-> allocated_frames_count]
                       /\ frame_queue' = <<>>
                       /\ call' = [c EXCEPT !.ok = TRUE]
                       /\ UNCHANGED frames

\* _handle_page_fault: the frame for page_no and the page replaced (None when
\* no page is replaced), with the frame table, the queue and the page table
\* it leaves.  status is "ok", "empty_queue" (frame_no is None) or "KeyError"
\* (page_table[replaced_page_no] raised, after the pop).
_handle_page_fault(page_no) ==
    LET free_frames == empty_allocated_frames(frames, allocated_frames)
        r == [status |-> "ok", frame_no |-> None, replaced |-> None,
              frames |-> frames, frame_queue |-> frame_queue,
              page_table |-> page_table]
    IN IF free_frames # <<>>
       THEN [r EXCEPT !.frame_no = free_frames[1],
                      !.frames = [frames EXCEPT ![free_frames[1]] = page_no],
                      !.frame_queue = Append(frame_queue, free_frames[1])]
       ELSE IF frame_queue = <<>>
       THEN [r EXCEPT !.status = "empty_queue"]
       ELSE LET replaced_frame == Head(frame_queue)
                replaced_page_no == frames[replaced_frame]
            IN IF replaced_page_no # None /\ replaced_page_no \notin DOMAIN page_table
               THEN [r EXCEPT !.status = "KeyError",
                              !.frame_queue = Tail(frame_queue)]
               ELSE [r EXCEPT
                       !.frame_no = replaced_frame,
                       !.replaced = replaced_page_no,
                       !.page_table =
                           IF replaced_page_no # None
                           THEN [page_table EXCEPT
                                   ![replaced_page_no].exists = FALSE,
                                   ![replaced_page_no].frame_no = None]
                           ELSE page_table,
                       !.frames = [frames EXCEPT ![replaced_frame] = page_no],
                       !.frame_queue = Append(Tail(frame_queue), replaced_frame)]

\* is_store taking every operation but load for a store
is_store_not_load(operation) == operation # "load"

is_store(operation) == operation = "save"

\* frame_no * page_size + offset without the page size
physical_address_unscaled(frame_no, offset) == frame_no + offset

physical_address(frame_no, offset) == frame_no * PageSize + offset

\* the out-of-range result reported as a page fault
not_in_page_table_fault(c) ==
    [c EXCEPT !.physical_address = None, !.page_fault = TRUE]

\* the result for a page number that is not in the page table
not_in_page_table(c) ==
    [c EXCEPT !.physical_address = None, !.page_fault = FALSE]

access_memory(page_no, offset, operation) ==
    LET c == [op |-> "access_memory", page_no |-> page_no, offset |-> offset,
              operation |-> operation, physical_address |-> None,
              page_fault |-> FALSE, replaced |-> None, raised |-> FALSE]
    IN /\ pre' = Snapshot
       /\ UNCHANGED <<current_job, allocated_frames>>
       /\ IF page_no \notin DOMAIN page_table
          THEN /\ call' = not_in_page_table(c)
               /\ UNCHANGED <<frames, page_table, frame_queue>>
          ELSE IF ~page_table[page_no].exists
          THEN LET h == _handle_page_fault(page_no) IN
               /\ frames' = h.frames
               /\ frame_queue' = h.frame_queue
               /\ IF h.status = "KeyError"
                  THEN /\ call' = [c EXCEPT !.raised = TRUE]
                       /\ page_table' = h.page_table
                  ELSE IF h.status = "empty_queue"
                  THEN /\ call' = [c EXCEPT !.page_fault = TRUE]
                       /\ page_table' = h.page_table
                  ELSE /\ page_table' =
                            [h.page_table EXCEPT
                               ![page_no].exists = TRUE,
                               ![page_no].frame_no = h.frame_no,
                               ![page_no].modified =
                                   IF is_store(operation) THEN TRUE ELSE @]
                       /\ call' = [c EXCEPT
                               !.physical_address =
                                   physical_address(h.frame_no, offset),
                               !.page_fault = TRUE,
                               !.replaced = h.replaced]
          ELSE /\ page_table' =
                    [page_table EXCEPT
                       ![page_no].modified = IF is_store(operation) THEN TRUE ELSE @]
               /\ call' = [c EXCEPT
                       !.physical_address =
                           physical_address(page_table[page_no].frame_no, offset)]
               /\ UNCHANGED <<frames, frame_queue>>

\* job sizes up to one past max_job_size, frame counts up to one past
\* total_frames, page numbers up to one past the largest page table, the
\* first and the last offset of a page
JobSizes == {1, PageSize + 1, MaxJobSize, MaxJobSize + 1}
FrameCounts == 0..(total_frames + 1)
PageNos == 0..pages_count_of(MaxJobSize)
Offsets == {0, PageSize - 1}

\* History of a create_job call: a rebuilt page table has no resident page.
CreateJobHistory ==
    IF call'.reason \in {"JobTooLarge", "InsufficientFrames"}
    THEN UNCHANGED hist_vars
    ELSE load_order' = <<>> /\ written' = {}

\* History of an access_memory call: a page that becomes resident goes to the
\* end of load_order, not stored to yet; a page that stops being resident
\* leaves both; a store to a page that is resident after it is recorded.
AccessMemoryHistory ==
    LET p == call'.page_no
        resident(t) == {q \in DOMAIN t : t[q].exists}
        gone == resident(page_table) \ resident(page_table')
        came == resident(page_table') \ resident(page_table)
        stored == IF call'.physical_address # None /\ is_store(call'.operation)
                  THEN {p} ELSE {}
    IN /\ load_order' =
             SelectSeq(load_order, LAMBDA q : q \notin gone)
             \o (IF p \in came THEN <<p>> ELSE <<>>)
       /\ written' = ((written \ gone) \ came) \cup stored

CreateJob ==
    /\ \E job_id \in JobIds, job_size \in JobSizes, n \in FrameCounts :
          create_job(job_id, job_size, n)
    /\ CreateJobHistory
    /\ UNCHANGED part_vars

AccessMemory ==
    /\ \E page_no \in PageNos, offset \in Offsets, operation \in Operations :
          access_memory(page_no, offset, operation)
    /\ AccessMemoryHistory
    /\ UNCHANGED part_vars

Init ==
    /\ memory_blocks = <<MemoryBlock(0, MemorySize, FALSE, None)>>
    /\ processes = [p \in {} |-> Process(p, 0)]
    /\ frames = [i \in 0..(total_frames - 1) |-> None]
    /\ current_job = NoJob
    /\ page_table = new_page_table(0)
    /\ allocated_frames = <<>>
    /\ frame_queue = <<>>
    /\ load_order = <<>>
    /\ written = {}
    /\ call = [op |-> "init"]
    /\ pre = Snapshot

PartNext == Allocate \/ Deallocate

PartSpec == Init /\ [][PartNext]_vars

PageNext == CreateJob \/ AccessMemory

PageSpec == Init /\ [][PageNext]_vars

\* ------------------------------------------------------------------------
\* Properties of DynamicPartition
\* ------------------------------------------------------------------------

RECURSIVE SumSizes(_)
SumSizes(blocks) ==
    IF blocks = <<>> THEN 0 ELSE Head(blocks).size + SumSizes(Tail(blocks))

\* positions of the free blocks of `blocks' that can hold `size'
Candidates(blocks, size) ==
    {i \in 1..Len(blocks) : ~blocks[i].allocated /\ blocks[i].size >= size}

\* the last call was allocate(pid, size, algorithm) for a pid not allocated
\* before it, while some free block could hold `size'
AllocateCase(algorithm) ==
    /\ call.op = "allocate"
    /\ call.algorithm = algorithm
    /\ call.pid \notin DOMAIN pre.processes
    /\ Candidates(pre.memory_blocks, call.size) # {}

\* the process of the last call sits exactly at the block of position i of
\* the block list before the call
PlacedAt(i) ==
    \E j \in 1..Len(memory_blocks) :
        /\ memory_blocks[j].allocated
        /\ memory_blocks[j].process_id = call.pid
        /\ memory_blocks[j].start_addr = pre.memory_blocks[i].start_addr
        /\ \A k \in 1..Len(memory_blocks) :
              (memory_blocks[k].allocated /\ memory_blocks[k].process_id = call.pid)
                 => k = j

\* C1: in every reachable state the block list is ordered by start, starts at
\* 0, is contiguous (each block starts where the previous one ends), has only
\* blocks of positive size, and its sizes sum to memory_size.
C1_BlockListCoversMemory ==
    /\ Len(memory_blocks) >= 1
    /\ memory_blocks[1].start_addr = 0
    /\ \A i \in 1..Len(memory_blocks) : memory_blocks[i].size > 0
    /\ \A i \in 1..(Len(memory_blocks) - 1) :
          /\ memory_blocks[i].start_addr < memory_blocks[i + 1].start_addr
          /\ memory_blocks[i + 1].start_addr =
                memory_blocks[i].start_addr + memory_blocks[i].size
    /\ SumSizes(memory_blocks) = MemorySize

\* a deallocation inside a fragmented list: allocated and free blocks on both
\* sides of a split remain
C1_Witness ==
    /\ call.op = "deallocate" /\ call.ok
    /\ Len(memory_blocks) >= 4
    /\ \E i \in 1..Len(memory_blocks) : memory_blocks[i].allocated
    /\ \E i \in 1..Len(memory_blocks) : ~memory_blocks[i].allocated

\* C2: in every reachable state no two adjacent blocks are both free.
C2_NoAdjacentFree ==
    \A i \in 1..(Len(memory_blocks) - 1) :
        memory_blocks[i].allocated \/ memory_blocks[i + 1].allocated

\* a deallocation whose block had a free neighbour on both sides
C2_Witness ==
    /\ call.op = "deallocate" /\ call.ok
    /\ \E i \in 2..(Len(pre.memory_blocks) - 1) :
          /\ pre.memory_blocks[i].allocated
          /\ pre.memory_blocks[i].process_id = call.pid
          /\ ~pre.memory_blocks[i - 1].allocated
          /\ ~pre.memory_blocks[i + 1].allocated

\* C7: allocate with first_fit for a pid not yet allocated succeeds when some
\* free block is large enough, and places the process at the lowest start
\* address among the free blocks with size >= requested size.
C7_FirstFitLowestAddress ==
    AllocateCase("first_fit") =>
        /\ call.ok
        /\ \E i \in Candidates(pre.memory_blocks, call.size) :
              /\ PlacedAt(i)
              /\ \A k \in Candidates(pre.memory_blocks, call.size) : i <= k

\* first_fit chose a block that is neither the tightest nor the loosest fit
C7_Witness ==
    /\ AllocateCase("first_fit") /\ call.ok
    /\ \E i, k, m \in Candidates(pre.memory_blocks, call.size) :
          /\ PlacedAt(i)
          /\ pre.memory_blocks[k].size < pre.memory_blocks[i].size
          /\ pre.memory_blocks[m].size > pre.memory_blocks[i].size

\* C8: allocate with best_fit for a pid not yet allocated succeeds when some
\* free block is large enough, and places the process in a free block of
\* minimum size among those with size >= requested size; among several of
\* that size, in the one with the lowest start address.
C8_BestFitSmallestFirst ==
    AllocateCase("best_fit") =>
        /\ call.ok
        /\ \E i \in Candidates(pre.memory_blocks, call.size) :
              /\ PlacedAt(i)
              /\ \A k \in Candidates(pre.memory_blocks, call.size) :
                    /\ pre.memory_blocks[i].size <= pre.memory_blocks[k].size
                    /\ pre.memory_blocks[i].size = pre.memory_blocks[k].size
                          => i <= k

\* best_fit with a tie at the minimum size, behind a larger block
C8_Witness ==
    /\ AllocateCase("best_fit") /\ call.ok
    /\ \E i, k, m \in Candidates(pre.memory_blocks, call.size) :
          /\ PlacedAt(i)
          /\ k > i
          /\ pre.memory_blocks[k].size = pre.memory_blocks[i].size
          /\ m < i
          /\ pre.memory_blocks[m].size > pre.memory_blocks[i].size

\* C9: allocate with worst_fit for a pid not yet allocated succeeds when some
\* free block is large enough (also when every such block fits exactly), and
\* places the process in a free block of maximum size among those with
\* size >= requested size; among several of that size, in the one with the
\* lowest start address.
C9_WorstFitLargestFirst ==
    AllocateCase("worst_fit") =>
        /\ call.ok
        /\ \E i \in Candidates(pre.memory_blocks, call.size) :
              /\ PlacedAt(i)
              /\ \A k \in Candidates(pre.memory_blocks, call.size) :
                    /\ pre.memory_blocks[i].size >= pre.memory_blocks[k].size
                    /\ pre.memory_blocks[i].size = pre.memory_blocks[k].size
                          => i <= k

\* worst_fit with a tie at the maximum size, behind a smaller sufficient
\* block, all sufficient blocks of the tie fitting exactly
C9_Witness ==
    /\ AllocateCase("worst_fit") /\ call.ok
    /\ \E i, k, m \in Candidates(pre.memory_blocks, call.size) :
          /\ PlacedAt(i)
          /\ k > i
          /\ pre.memory_blocks[k].size = pre.memory_blocks[i].size
          /\ m < i
          /\ pre.memory_blocks[m].size < pre.memory_blocks[i].size

\* worst_fit when every sufficient block fits exactly
C9_ExactFitReached ==
    /\ AllocateCase("worst_fit") /\ call.ok
    /\ Cardinality(Candidates(pre.memory_blocks, call.size)) >= 2
    /\ \A k \in Candidates(pre.memory_blocks, call.size) :
          pre.memory_blocks[k].size = call.size

\* C10: allocate fails exactly when the pid is already allocated or no free
\* block has size >= requested size; deallocate fails exactly when the pid has
\* no recorded allocation; a failing call leaves the block list and the
\* process table unchanged.
C10_FailuresLeaveStateUnchanged ==
    /\ call.op = "allocate" =>
          (~call.ok <=> (\/ call.pid \in DOMAIN pre.processes
                         \/ Candidates(pre.memory_blocks, call.size) = {}))
    /\ call.op = "deallocate" =>
          (~call.ok <=> call.pid \notin DOMAIN pre.processes)
    /\ (call.op \in {"allocate", "deallocate"} /\ ~call.ok) =>
          /\ memory_blocks = pre.memory_blocks
          /\ processes = pre.processes

\* an allocation refused for fragmentation: enough free memory in total, no
\* single free block large enough, other processes allocated
C10_Witness ==
    /\ call.op = "allocate" /\ ~call.ok
    /\ call.pid \notin DOMAIN pre.processes
    /\ Candidates(pre.memory_blocks, call.size) = {}
    /\ Cardinality(Candidates(pre.memory_blocks, 1)) >= 2
    /\ memory_blocks = pre.memory_blocks
    /\ DOMAIN processes # {}

\* ------------------------------------------------------------------------
\* Properties of DynamicPaging
\* ------------------------------------------------------------------------

\* C3: a create_job call that fails (JobTooLarge, InsufficientFrames or
\* OutOfFrames) leaves the page table, the allocated-frame list, the frame
\* table, the FIFO queue and the current job descriptor as they were.
C3_FailedCreateJobChangesNothing ==
    (call.op = "create_job" /\ ~call.ok) =>
        /\ page_table = pre.page_table
        /\ allocated_frames = pre.allocated_frames
        /\ frames = pre.frames
        /\ frame_queue = pre.frame_queue
        /\ current_job = pre.current_job

\* C4: no access_memory call raises: a frame popped from the FIFO queue that
\* holds a page number holds a key of the current page table.
C4_AccessMemoryNeverRaises ==
    call.op = "access_memory" => ~call.raised

\* C5: right after a successful create_job every slot of the frame table is
\* empty and the FIFO queue is empty.
C5_CreateJobResetsFrames ==
    (call.op = "create_job" /\ call.ok) =>
        /\ \A f \in DOMAIN frames : frames[f] = None
        /\ frame_queue = <<>>

\* C6: a create_job call with job_size <= max_job_size and
\* frame_count <= total_frames succeeds in every reachable state.
C6_ValidCreateJobSucceeds ==
    (/\ call.op = "create_job"
     /\ call.job_size <= MaxJobSize
     /\ call.allocated_frames_count <= total_frames) => call.ok

\* ------------------------------------------------------------------------
\* Further properties of DynamicPartition
\* ------------------------------------------------------------------------

\* the position in `blocks' of the block allocated to pid (NoBlock if none)
BlockOf(blocks, pid) ==
    IF \E i \in 1..Len(blocks) : blocks[i].allocated /\ blocks[i].process_id = pid
    THEN CHOOSE i \in 1..Len(blocks) :
            blocks[i].allocated /\ blocks[i].process_id = pid
    ELSE NoBlock

\* the last call was a deallocate of a block with a free block on both sides
DeallocateBetweenFree(i) ==
    /\ call.op = "deallocate" /\ call.pid \in DOMAIN pre.processes
    /\ i > 1 /\ i < Len(pre.memory_blocks)
    /\ pre.memory_blocks[i].allocated
    /\ pre.memory_blocks[i].process_id = call.pid
    /\ ~pre.memory_blocks[i - 1].allocated
    /\ ~pre.memory_blocks[i + 1].allocated

\* C16: whenever the process table is empty the block list is one free block
\* with start 0 and size memory_size; a deallocation whose block has a free
\* neighbour on both sides merges the three blocks into one in that call.
C16_AllFreedIsOneBlock ==
    /\ DOMAIN processes = {} =>
          memory_blocks = <<MemoryBlock(0, MemorySize, FALSE, None)>>
    /\ \A i \in 1..Len(pre.memory_blocks) :
          DeallocateBetweenFree(i) =>
             /\ Len(memory_blocks) = Len(pre.memory_blocks) - 2
             /\ memory_blocks[i - 1] =
                   MemoryBlock(pre.memory_blocks[i - 1].start_addr,
                               pre.memory_blocks[i - 1].size
                                 + pre.memory_blocks[i].size
                                 + pre.memory_blocks[i + 1].size,
                               FALSE, None)

\* the last process is deallocated from between two free blocks
C16_Witness ==
    /\ DOMAIN processes = {}
    /\ Len(pre.memory_blocks) = 3
    /\ DeallocateBetweenFree(2)
    /\ call.ok

\* C19: a successful allocate replaces the chosen free block, at its list
\* position, by an allocated block with its start, the requested size and the
\* process as owner, followed by a free block with the remainder exactly when
\* the chosen block was larger; all other blocks stay as they were, in order.
C19_AllocateSplitsInPlace ==
    (call.op = "allocate" /\ call.ok) =>
        \E i \in Candidates(pre.memory_blocks, call.size) :
            LET chosen == pre.memory_blocks[i]
                remainder ==
                    IF chosen.size > call.size
                    THEN <<MemoryBlock(chosen.start_addr + call.size,
                                       chosen.size - call.size, FALSE, None)>>
                    ELSE <<>>
            IN memory_blocks =
                   SubSeq(pre.memory_blocks, 1, i - 1)
                   \o <<MemoryBlock(chosen.start_addr, call.size, TRUE, call.pid)>>
                   \o remainder
                   \o SubSeq(pre.memory_blocks, i + 1, Len(pre.memory_blocks))

\* an allocation into a larger free block lying between two allocated blocks
C19_Witness ==
    /\ call.op = "allocate" /\ call.ok
    /\ \E j \in 2..(Len(memory_blocks) - 2) :
          /\ memory_blocks[j].allocated
          /\ memory_blocks[j].process_id = call.pid
          /\ ~memory_blocks[j + 1].allocated
          /\ memory_blocks[j - 1].allocated
          /\ memory_blocks[j + 2].allocated

\* C20: the ids of the process table are the owners of the allocated blocks,
\* each owns exactly one block, of the size the process requested; an id
\* enters the table only by a successful allocate of it and leaves it only by
\* a successful deallocate of it.
C20_ProcessTableMatchesBlocks ==
    /\ \A i \in 1..Len(memory_blocks) :
          memory_blocks[i].allocated =>
             /\ memory_blocks[i].process_id \in DOMAIN processes
             /\ memory_blocks[i].size =
                   processes[memory_blocks[i].process_id].memory_size
             /\ \A j \in 1..Len(memory_blocks) :
                   (memory_blocks[j].allocated
                    /\ memory_blocks[j].process_id = memory_blocks[i].process_id)
                      => j = i
    /\ \A p \in DOMAIN processes :
          /\ BlockOf(memory_blocks, p) # NoBlock
          /\ processes[p].pid = p
    /\ \A p \in DOMAIN processes \ DOMAIN pre.processes :
          call.op = "allocate" /\ call.ok /\ call.pid = p
    /\ \A p \in DOMAIN pre.processes \ DOMAIN processes :
          call.op = "deallocate" /\ call.ok /\ call.pid = p
    /\ (call.op = "allocate" /\ call.ok) =>
          DOMAIN processes = DOMAIN pre.processes \cup {call.pid}
    /\ (call.op = "deallocate" /\ call.ok) =>
          DOMAIN processes = DOMAIN pre.processes \ {call.pid}

\* a deallocation that leaves two other processes allocated, of different
\* sizes
C20_Witness ==
    /\ call.op = "deallocate" /\ call.ok
    /\ Cardinality(DOMAIN processes) = 2
    /\ \E p, q \in DOMAIN processes :
          processes[p].memory_size # processes[q].memory_size

\* ------------------------------------------------------------------------
\* Further properties of DynamicPaging
\* ------------------------------------------------------------------------

\* the last call was an access_memory to a page of the page table
AccessCase == call.op = "access_memory" /\ call.page_no \in DOMAIN pre.page_table

\* ... to a page that was resident
HitCase == AccessCase /\ pre.page_table[call.page_no].exists

\* ... to a page that was not resident
FaultCase == AccessCase /\ ~pre.page_table[call.page_no].exists

\* ... while no frame of the allocated-frame list was empty and the FIFO
\* queue had a head to reuse
ReplacementCase ==
    /\ FaultCase
    /\ empty_allocated_frames(pre.frames, pre.allocated_frames) = <<>>
    /\ pre.frame_queue # <<>>

\* C11: a fault with no empty allocated frame reuses the frame at the head of
\* the FIFO queue; the page evicted is the resident page loaded earliest
\* (hits do not move it in the queue); it becomes non-resident with no frame,
\* the reused frame goes to the tail of the queue, and an access to a
\* non-resident page, such as the evicted one, faults.
C11_FifoEvictsOldestResident ==
    /\ ReplacementCase =>
          LET head == Head(pre.frame_queue)
              victim == pre.frames[head]
          IN /\ ~call.raised
             /\ call.physical_address = head * PageSize + call.offset
             /\ page_table[call.page_no].frame_no = head
             /\ victim \in DOMAIN pre.page_table
             /\ pre.page_table[victim].exists
             /\ pre.load_order # <<>>
             /\ victim = Head(pre.load_order)
             /\ call.replaced = victim
             /\ ~page_table[victim].exists
             /\ page_table[victim].frame_no = None
             /\ frame_queue = Append(Tail(pre.frame_queue), head)
    /\ HitCase => frame_queue = pre.frame_queue
    /\ (FaultCase /\ ~call.raised) => call.page_fault

\* C14: a resident page is dirty only if a store-like access to it occurred
\* since it was last loaded into a frame.
C14_DirtyOnlyIfWrittenSinceLoad ==
    \A p \in DOMAIN page_table :
        (page_table[p].exists /\ page_table[p].modified) => p \in written

\* C12 (state part): an access to a resident page reports no fault, returns
\* frame_no * page_size + offset, and leaves the frame table, the FIFO queue,
\* the allocated-frame list and every page's residency and frame unchanged;
\* only the accessed page's dirty flag may change.
C12_HitChangesOnlyDirty ==
    HitCase =>
        /\ ~call.raised
        /\ ~call.page_fault
        /\ call.physical_address =
              pre.page_table[call.page_no].frame_no * PageSize + call.offset
        /\ frames = pre.frames
        /\ frame_queue = pre.frame_queue
        /\ allocated_frames = pre.allocated_frames
        /\ DOMAIN page_table = DOMAIN pre.page_table
        /\ \A q \in DOMAIN page_table :
              /\ page_table[q].exists = pre.page_table[q].exists
              /\ page_table[q].frame_no = pre.page_table[q].frame_no
              /\ q # call.page_no =>
                    page_table[q].modified = pre.page_table[q].modified

\* C12 (step part): an access that follows an access to the same page and
\* offset which returned an address returns that address and reports no fault.
C12_RepeatedAccess ==
    (/\ call.op = "access_memory"
     /\ call.physical_address # None
     /\ call'.op = "access_memory"
     /\ call'.page_no = call.page_no
     /\ call'.offset = call.offset)
        => /\ call'.physical_address = call.physical_address
           /\ ~call'.page_fault

\* C12: accesses to resident pages change nothing but the dirty flag and
\* repeat the physical address without a fault.
C12_ResidentAccess == []C12_HitChangesOnlyDirty /\ [][C12_RepeatedAccess]_vars

\* a store to a clean resident page in the second frame, another page
\* being resident too
C12_Witness ==
    /\ HitCase
    /\ call.operation = "save"
    /\ ~pre.page_table[call.page_no].modified
    /\ page_table[call.page_no].modified
    /\ pre.page_table[call.page_no].frame_no > 0
    /\ call.offset > 0
    /\ Len(frame_queue) = 2

\* C13: an access with save that returns an address leaves the accessed page
\* dirty; an access with any other operation leaves every page's dirty flag
\* as it was, on a hit and on a fault.
C13_OnlySaveSetsDirty ==
    call.op = "access_memory" =>
        /\ (call.operation = "save" /\ call.physical_address # None) =>
              page_table[call.page_no].modified
        /\ call.operation # "save" =>
              /\ DOMAIN page_table = DOMAIN pre.page_table
              /\ \A q \in DOMAIN page_table :
                    page_table[q].modified = pre.page_table[q].modified

\* an arithmetic access that faults on a clean page and evicts a dirty one
C13_Witness ==
    /\ FaultCase
    /\ call.operation = "+"
    /\ call.physical_address # None
    /\ call.replaced # None
    /\ call.replaced # call.page_no
    /\ page_table[call.replaced].modified
    /\ ~page_table[call.page_no].modified

\* a save that faults and leaves the loaded page dirty
C13_SaveFaultReached ==
    /\ FaultCase
    /\ call.operation = "save"
    /\ ~pre.page_table[call.page_no].modified
    /\ page_table[call.page_no].modified

\* C15: every page-table entry marked resident has a valid frame index whose
\* frame-table slot holds that page's number; every entry marked
\* non-resident has no frame.
C15_ResidentPagesMatchFrames ==
    \A p \in DOMAIN page_table :
        /\ page_table[p].exists =>
              /\ page_table[p].frame_no \in 0..(total_frames - 1)
              /\ frames[page_table[p].frame_no] = p
        /\ ~page_table[p].exists => page_table[p].frame_no = None

\* a replacement with two pages resident afterwards
C15_Witness ==
    /\ FaultCase
    /\ call.replaced # None
    /\ Cardinality({p \in DOMAIN page_table : page_table[p].exists}) = 2
    /\ ~page_table[call.replaced].exists

\* C17: an access with a page number that is not in the page table (also
\* before any create_job succeeded) returns no address and page_fault = false
\* and leaves the page table, the frame table, the allocated-frame list and
\* the FIFO queue unchanged.
C17_PageOutOfRangeChangesNothing ==
    (call.op = "access_memory" /\ call.page_no \notin DOMAIN pre.page_table) =>
        /\ ~call.raised
        /\ call.physical_address = None
        /\ ~call.page_fault
        /\ page_table = pre.page_table
        /\ frames = pre.frames
        /\ allocated_frames = pre.allocated_frames
        /\ frame_queue = pre.frame_queue

\* an out-of-range access while a page of the job is resident
C17_Witness ==
    /\ call.op = "access_memory"
    /\ call.page_no \notin DOMAIN pre.page_table
    /\ call.physical_address = None
    /\ \E p \in DOMAIN page_table : page_table[p].exists

\* an access before any create_job succeeded
C17_NoCurrentJobReached ==
    /\ call.op = "access_memory"
    /\ current_job = NoJob
    /\ call.physical_address = None

\* C18 as stated: every access to a page number of the page table returns a
\* physical address and leaves the page resident, for any accepted
\* frame_count, 0 included.
C18_PageInTableGetsAddress ==
    AccessCase =>
        /\ call.physical_address # None
        /\ page_table[call.page_no].exists

\* C18 amended: for a page number of the page table, access_memory returns no
\* address only when the page is not resident, no frame of the
\* allocated-frame list is empty and the FIFO queue is empty (as for a job
\* accepted with frame_count 0); it then reports page_fault = true and changes
\* nothing.  An access to a resident page, or to a non-resident page while an
\* allocated frame is empty, returns an address, and an access that returns an
\* address leaves the page resident.
C18_NoAddressOnlyWithoutFrame ==
    AccessCase =>
        /\ (call.physical_address = None /\ ~call.raised) =>
              /\ ~pre.page_table[call.page_no].exists
              /\ empty_allocated_frames(pre.frames, pre.allocated_frames) = <<>>
              /\ pre.frame_queue = <<>>
              /\ call.page_fault
              /\ page_table = pre.page_table
              /\ frames = pre.frames
              /\ allocated_frames = pre.allocated_frames
              /\ frame_queue = pre.frame_queue
        /\ (\/ pre.page_table[call.page_no].exists
            \/ \E i \in 1..Len(pre.allocated_frames) :
                  pre.frames[pre.allocated_frames[i]] = None) =>
              call.physical_address # None
        /\ call.physical_address # None => page_table[call.page_no].exists

\* an access to a page of a job created with frame_count 0
C18_Witness ==
    /\ AccessCase
    /\ current_job.allocated_frames_count = 0
    /\ call.physical_address = None
    /\ call.page_fault
    /\ ~call.raised

\* the empty frames of the allocated-frame list before the call
EmptyAllocated ==
    {pre.allocated_frames[i] : i \in 1..Len(pre.allocated_frames)}
        \cap {f \in DOMAIN pre.frames : pre.frames[f] = None}

\* the last call was an access to a non-resident page while a frame of the
\* allocated-frame list was empty
EmptyFrameCase == FaultCase /\ EmptyAllocated # {}

\* C21: a fault on a non-resident page while at least one frame of the
\* allocated-frame list is empty maps the page into the lowest-indexed empty
\* allocated frame and appends that frame to the tail of the FIFO queue; no
\* page is evicted (no other page's residency or frame changes), and the
\* result reports page_fault = true with no evicted page.
C21_FaultFillsLowestEmptyFrame ==
    EmptyFrameCase =>
        LET p == call.page_no
            f == CHOOSE x \in EmptyAllocated : \A y \in EmptyAllocated : x <= y
        IN /\ ~call.raised
           /\ page_table[p].exists
           /\ page_table[p].frame_no = f
           /\ frames = [pre.frames EXCEPT ![f] = p]
           /\ frame_queue = Append(pre.frame_queue, f)
           /\ allocated_frames = pre.allocated_frames
           /\ DOMAIN page_table = DOMAIN pre.page_table
           /\ \A q \in DOMAIN page_table \ {p} :
                 page_table[q] = pre.page_table[q]
           /\ call.page_fault
           /\ call.replaced = None
           /\ call.physical_address # None

\* a fault with two empty allocated frames to choose from
C21_Witness ==
    /\ EmptyFrameCase
    /\ Cardinality(EmptyAllocated) = 2
    /\ page_table[call.page_no].exists
    /\ call.replaced = None

\* a fault filling the second frame while another page stays resident
C21_SecondFrameReached ==
    /\ EmptyFrameCase
    /\ pre.frame_queue # <<>>
    /\ \E q \in DOMAIN page_table \ {call.page_no} : page_table[q].exists
    /\ Len(frame_queue) = 2

\* C22: in every state reached by create_job calls, successful or failed, and
\* access_memory calls, the FIFO queue holds no frame index twice and its set
\* of elements is exactly the set of the frames of the allocated-frame list
\* whose slot holds a page.
C22_QueueIsFilledAllocatedFrames ==
    /\ \A i, j \in 1..Len(frame_queue) :
          frame_queue[i] = frame_queue[j] => i = j
    /\ {frame_queue[i] : i \in 1..Len(frame_queue)} =
          {f \in {allocated_frames[i] : i \in 1..Len(allocated_frames)} :
              frames[f] # None}

\* the last call was a create_job that succeeded
CreatedCase == call.op = "create_job" /\ call.ok

\* the frames that were empty before the call
EmptyBefore == {f \in DOMAIN pre.frames : pre.frames[f] = None}

\* C23: after a successful create_job(job_id, job_size, frame_count) the page
\* table has exactly ceil(job_size / page_size) entries numbered from 0, all
\* non-resident, not dirty and without a frame; the allocated-frame list is
\* the frame_count lowest-indexed frames that were empty at the time of the
\* call, in ascending order; the FIFO queue is empty; and the current job is
\* the new job.
C23_CreateJobBuildsFreshJob ==
    CreatedCase =>
        LET n == Cardinality(DOMAIN page_table)
            k == call.allocated_frames_count
            chosen == {allocated_frames[i] : i \in 1..Len(allocated_frames)}
        IN /\ DOMAIN page_table = 0..(n - 1)
           /\ n * PageSize >= call.job_size
           /\ (n - 1) * PageSize < call.job_size
           /\ \A p \in DOMAIN page_table :
                 /\ page_table[p].page_no = p
                 /\ ~page_table[p].exists
                 /\ ~page_table[p].modified
                 /\ page_table[p].frame_no = None
           /\ Len(allocated_frames) = k
           /\ \A i, j \in 1..k : i < j => allocated_frames[i] < allocated_frames[j]
           /\ chosen \subseteq EmptyBefore
           /\ \A f \in chosen, g \in EmptyBefore \ chosen : f < g
           /\ frame_queue = <<>>
           /\ current_job = [id |-> call.job_id, size |-> call.job_size,
                             pages_count |-> n, allocated_frames_count |-> k]

\* a second job created while a frame still holds a page of the first and the
\* queue is not empty: it gets the one remaining empty frame and a page
\* table of two pages for a size that is not a multiple of the page size
C23_Witness ==
    /\ CreatedCase
    /\ pre.frame_queue # <<>>
    /\ \E p \in DOMAIN pre.page_table : pre.page_table[p].exists
    /\ call.job_size = PageSize + 1
    /\ DOMAIN page_table = {0, 1}
    /\ allocated_frames = <<1>>

\* a job created with every frame of memory, all of them empty
C23_AllFramesReached ==
    /\ CreatedCase
    /\ call.allocated_frames_count = total_frames
    /\ Len(allocated_frames) = total_frames

====
